---- MODULE Spec2Model ----
(***************************************************************************)
(* MD2PDF: the document list, the shared web view and the batch conversion *)
(* pipeline of MarkdownToPdfConverter (src/MD2PDF.py).                     *)
(*                                                                         *)
(* Every handler of the program is an operator from a state record to a    *)
(* state record, so that a handler that calls another handler is one       *)
(* atomic step, as in the single-threaded Qt event loop.  The engine       *)
(* (QWebEngineView), the timers (QTimer.singleShot) and the file system    *)
(* are the environment: their events are actions of their own.             *)
(***************************************************************************)
EXTENDS Integers, Sequences, FiniteSets, TLC

(***************************************************************************)
(* Bounds of the model.                                                    *)
(***************************************************************************)
NumPaths == 3      \* source paths the user can pick: 1..NumPaths
MaxFiles == 3      \* longest document list of a job that runs undisturbed
MaxList == 2       \* longest document list the user builds by hand
MaxLoads == 2      \* page loads in flight when the user triggers a preview
MaxClicks == 3     \* user actions in one behaviour
MaxJobs == 1       \* conversion jobs started in one behaviour
MaxText == 3       \* longest Markdown text handed to the renderer
MaxMarker == 2     \* longest page-break marker the user types
MaxSummary == 7    \* most files of a job whose summary is composed

\* self.conversion_errors[:5]: the error lines a summary shows
ShownErrors == 5

(***************************************************************************)
(* Paths.  Paths 1 and 2 are "<dir>/a.md" and "<dir>/b.md", paths 3 and 4  *)
(* are "<dir>/a.markdown" and "<dir>/b.markdown", and so on: two distinct  *)
(* paths may share a stem.                                                 *)
(***************************************************************************)
Paths == 1..NumPaths

\* Path(current_file).stem: the name without directory and suffix
Stem(file_path) == 2 - (file_path % 2)

Stems == {Stem(p) : p \in Paths}

\* str(Path(file_path).parent): all documents live in directory 1
Parent(file_path) == 1

\* QMessageBox.Yes | QMessageBox.No | QMessageBox.Cancel
Replies == {"Yes", "No", "Cancel"}

\* what the environment answers for the file at one position of the list:
\* a reply of the overwrite dialog, or a source file that cannot be read
Inputs == Replies \cup {"Unreadable"}

\* sizes in bytes the engine may give a written PDF
PdfSizes == {0, 1024, 2048}

NoEv == [job |-> 0, pos |-> 0]

NoFile == [exists |-> FALSE, size |-> 0, html |-> 0, job |-> 0, pos |-> 0]

\* an output that was on disk before the program started
OldFile == [exists |-> TRUE, size |-> 2048, html |-> 0, job |-> 0, pos |-> 0]

\* no summary shown, no document rendered, no call remembered
NoSummary == [shown |-> FALSE]

NoHtml == [made |-> FALSE]

NoCall == [made |-> FALSE]

\* the characters of texts and markers
Chars == {"<", "d", ">", "m"}

\* self.page_break_marker = "<!-- pagebreak -->", written with three characters
page_break_marker == <<"<", "m", ">">>

\* '<div class="page-break" style="page-break-after: always;"></div>', written
\* with three characters: like the element it starts with "<", ends with ">"
\* and no end of it is also a beginning of it
PageBreak == <<"<", "d", ">">>

Texts == UNION {[1..n -> Chars] : n \in 0..MaxText}

\* what the user may type into pagebreak_input; <<>> is the cleared field
Markers == UNION {[1..n -> Chars] : n \in 0..MaxMarker}

VARIABLES
    \* document list and preview (MarkdownToPdfConverter fields and widgets)
    current_files,            \* self.current_files
    file_items,               \* self.file_items: [file_path, selected]
    current_file_index,       \* self.current_file_index
    output_folder,            \* self.output_folder.text(): 0 is ""
    confirm_overwrite,        \* self.confirm_overwrite.isChecked()
    convert_btn,              \* self.convert_btn.isEnabled()
    clear_files_btn,          \* self.clear_files_btn.isEnabled()
    prev_page_btn,            \* self.prev_page_btn.isEnabled()
    next_page_btn,            \* self.next_page_btn.isEnabled()
    progress_bar,             \* self.progress_bar.value()
    \* conversion job
    current_conversion_index, \* self.current_conversion_index
    total_files,              \* self.total_files
    conversion_errors,        \* self.conversion_errors: [file_name, msg]
    current_output_path,      \* self.current_output_path: a stem, 0 if unset
    \* environment: web view, timers, engine, disk, process
    web_html,                 \* document set by the last setHtml (0 is "")
    receivers,                \* connections of on_html_loaded to loadFinished
    loads,                    \* loads whose loadFinished is not yet emitted
    timers,                   \* pending QTimer.singleShot callbacks
    printing,                 \* printToPdf requests the engine works on
    fs,                       \* output directory: stem -> file
    crashed,                  \* an exception left a slot: the process is gone
    summary,                  \* the message box of on_all_conversions_finished
    \* renderer
    pagebreak_input,          \* self.pagebreak_input.text()
    include_toc,              \* self.include_toc.isChecked()
    markdown_content,         \* argument of the last markdown_to_html call
    html_content,             \* what the last markdown_to_html call returned
    \* history variables
    job_active,               \* convert_to_pdf ran, on_all_conversions_finished not yet
    jobs_started,             \* number of jobs started
    finished,                 \* calls of on_all_conversions_finished in this job
    cancelled,                \* position at which Cancel was answered, else 0
    error_at,                 \* per error entry: cursor position and cause
    log,                      \* what the pipeline did in this job
    last_invocations,         \* on_html_loaded calls of the last emission
    clicks,                   \* user actions so far
    first_added,              \* paths in the order of their first addition
    last_added,               \* paths in the order of their latest addition
    rendered,                 \* the first markdown_to_html call: inputs and result
    warnings                  \* warning boxes convert_to_pdf has shown

vars == <<current_files, file_items, current_file_index, output_folder,
          confirm_overwrite, convert_btn, clear_files_btn, prev_page_btn,
          next_page_btn, progress_bar, current_conversion_index, total_files,
          conversion_errors, current_output_path, web_html, receivers, loads,
          timers, printing, fs, crashed, job_active, jobs_started, finished,
          cancelled, error_at, log, last_invocations, clicks, summary,
          pagebreak_input, include_toc, markdown_content, html_content,
          first_added, last_added, rendered, warnings>>

(***************************************************************************)
(* The state as a record.  disc and ev exist only while a handler runs:    *)
(* disc says that loadFinished.disconnect() ran during the emission under  *)
(* way, ev names the load or timer whose event is being handled.           *)
(***************************************************************************)
St ==
    [current_files |-> current_files, file_items |-> file_items,
     current_file_index |-> current_file_index,
     output_folder |-> output_folder, confirm_overwrite |-> confirm_overwrite,
     convert_btn |-> convert_btn, clear_files_btn |-> clear_files_btn,
     prev_page_btn |-> prev_page_btn, next_page_btn |-> next_page_btn,
     progress_bar |-> progress_bar,
     current_conversion_index |-> current_conversion_index,
     total_files |-> total_files, conversion_errors |-> conversion_errors,
     current_output_path |-> current_output_path, web_html |-> web_html,
     receivers |-> receivers, loads |-> loads, timers |-> timers,
     printing |-> printing, fs |-> fs, crashed |-> crashed,
     job_active |-> job_active, jobs_started |-> jobs_started,
     finished |-> finished, cancelled |-> cancelled, error_at |-> error_at,
     log |-> log, last_invocations |-> last_invocations, clicks |-> clicks,
     summary |-> summary, pagebreak_input |-> pagebreak_input,
     include_toc |-> include_toc, markdown_content |-> markdown_content,
     html_content |-> html_content, first_added |-> first_added,
     last_added |-> last_added, rendered |-> rendered,
     warnings |-> warnings,
     disc |-> FALSE, ev |-> NoEv]

Becomes(t) ==
    /\ current_files' = t.current_files
    /\ file_items' = t.file_items
    /\ current_file_index' = t.current_file_index
    /\ output_folder' = t.output_folder
    /\ confirm_overwrite' = t.confirm_overwrite
    /\ convert_btn' = t.convert_btn
    /\ clear_files_btn' = t.clear_files_btn
    /\ prev_page_btn' = t.prev_page_btn
    /\ next_page_btn' = t.next_page_btn
    /\ progress_bar' = t.progress_bar
    /\ current_conversion_index' = t.current_conversion_index
    /\ total_files' = t.total_files
    /\ conversion_errors' = t.conversion_errors
    /\ current_output_path' = t.current_output_path
    /\ web_html' = t.web_html
    /\ receivers' = t.receivers
    /\ loads' = t.loads
    /\ timers' = t.timers
    /\ printing' = t.printing
    /\ fs' = t.fs
    /\ crashed' = t.crashed
    /\ job_active' = t.job_active
    /\ jobs_started' = t.jobs_started
    /\ finished' = t.finished
    /\ cancelled' = t.cancelled
    /\ error_at' = t.error_at
    /\ log' = t.log
    /\ last_invocations' = t.last_invocations
    /\ clicks' = t.clicks
    /\ summary' = t.summary
    /\ pagebreak_input' = t.pagebreak_input
    /\ include_toc' = t.include_toc
    /\ markdown_content' = t.markdown_content
    /\ html_content' = t.html_content
    /\ first_added' = t.first_added
    /\ last_added' = t.last_added
    /\ rendered' = t.rendered
    /\ warnings' = t.warnings

(***************************************************************************)
(* Helpers.                                                                *)
(***************************************************************************)
\* the sequence q without its i-th element
RemoveAt(q, i) == [j \in 1..(Len(q) - 1) |-> IF j < i THEN q[j] ELSE q[j + 1]]

\* file_path in self.current_files
InList(q, file_path) == \E i \in 1..Len(q) : q[i] = file_path

\* self.current_files.index(file_path), 1-based
IndexOf(q, file_path) == CHOOSE i \in 1..Len(q) : q[i] = file_path /\ \A j \in 1..(i - 1) : q[j] # file_path

Max(a, b) == IF a >= b THEN a ELSE b

\* 1-based position of the cursor in the list of the job
Cur(s) == s.current_conversion_index + 1

\* an unhandled exception in a slot: PyQt5 aborts the process
Crash(s) == [s EXCEPT !.crashed = TRUE]

\* self.web_view.setHtml(html, base_url): the view takes the document and a
\* load starts; its loadFinished is emitted later (busy: a job was running
\* when the load was requested)
setHtml(s, html, tag) ==
    [s EXCEPT !.web_html = html,
              !.loads = Append(@, [html |-> html, job |-> tag.job, pos |-> tag.pos,
                                   busy |-> s.job_active])]

(***************************************************************************)
(* Document list and preview.                                              *)
(***************************************************************************)
update_ui_state(s) ==
    [s EXCEPT !.convert_btn = Len(s.current_files) > 0,
              !.clear_files_btn = Len(s.current_files) > 0]

update_page_info(s) ==
    IF Len(s.current_files) > 0
    THEN [s EXCEPT !.prev_page_btn = s.current_file_index + 1 > 1,
                   !.next_page_btn = s.current_file_index + 1 < Len(s.current_files)]
    ELSE [s EXCEPT !.prev_page_btn = FALSE, !.next_page_btn = FALSE]

\* readable: whether open(file_path) and read() succeed
load_markdown_file(s, file_path, readable) ==
    IF ~readable
    THEN s
    ELSE LET s1 == [s EXCEPT !.output_folder = IF @ = 0 THEN Parent(file_path) ELSE @]
         IN update_page_info(setHtml(s1, file_path, NoEv))

\* selected_item is the k-th item of file_items
select_file_item(s, k, readable) ==
    LET items == [i \in 1..Len(s.file_items) |->
                    [s.file_items[i] EXCEPT !.selected = (i = k)]]
        s1 == [s EXCEPT !.file_items = items, !.current_file_index = k - 1]
    IN load_markdown_file(s1, s.file_items[k].file_path, readable)

\* q without the path
Without(q, file_path) ==
    IF InList(q, file_path) THEN RemoveAt(q, IndexOf(q, file_path)) ELSE q

\* the history of additions: a path enters first_added when it is added for
\* the first time and moves to the end of last_added whenever it is added
Added(s, file_path) ==
    [s EXCEPT !.first_added = IF InList(@, file_path) THEN @ ELSE Append(@, file_path),
              !.last_added = Append(Without(@, file_path), file_path)]

RECURSIVE add_loop_unchecked(_, _)
add_loop_unchecked(s, file_paths) ==
    IF file_paths = <<>>
    THEN s
    ELSE LET file_path == Head(file_paths)
             s1 == [Added(s, file_path) EXCEPT
                        !.current_files = Append(@, file_path),
                        !.file_items = Append(@, [file_path |-> file_path,
                                                  selected |-> FALSE])]
         IN add_loop_unchecked(s1, Tail(file_paths))

RECURSIVE add_loop(_, _)
\* the for loop of add_files
add_loop(s, file_paths) ==
    IF file_paths = <<>>
    THEN s
    ELSE LET file_path == Head(file_paths)
             s1 == IF ~InList(s.current_files, file_path)
                   THEN [Added(s, file_path) EXCEPT
                             !.current_files = Append(@, file_path),
                             !.file_items = Append(@, [file_path |-> file_path,
                                                       selected |-> FALSE])]
                   ELSE s
         IN add_loop(s1, Tail(file_paths))

add_files(s, file_paths, readable) ==
    LET s1 == update_ui_state(add_loop(s, file_paths))
    IN IF s1.file_items # <<>> THEN select_file_item(s1, 1, readable) ELSE s1

clear_files(s) ==
    update_ui_state(setHtml([s EXCEPT !.current_files = <<>>,
                                      !.file_items = <<>>,
                                      !.current_file_index = 0], 0, NoEv))

\* the first item of file_items with this path is popped
pop_item(items, file_path) ==
    IF \E i \in 1..Len(items) : items[i].file_path = file_path
    THEN RemoveAt(items, CHOOSE i \in 1..Len(items) :
                            /\ items[i].file_path = file_path
                            /\ \A j \in 1..(i - 1) : items[j].file_path # file_path)
    ELSE items

\* variant: the index of the active file is not adjusted after the removal
remove_single_file_keeps_index(s, file_path, readable) ==
    IF ~InList(s.current_files, file_path)
    THEN s
    ELSE LET s2 == [s EXCEPT !.current_files = RemoveAt(@, IndexOf(s.current_files, file_path)),
                             !.file_items = pop_item(@, file_path)]
             s3 == IF s2.file_items # <<>>
                   THEN LET s4 == IF s2.current_file_index >= Len(s2.file_items)
                                  THEN [s2 EXCEPT !.current_file_index = Len(s2.file_items) - 1]
                                  ELSE s2
                        IN select_file_item(s4, s4.current_file_index + 1, readable)
                   ELSE [setHtml(s2, 0, NoEv) EXCEPT !.current_file_index = 0]
         IN update_ui_state(s3)

remove_single_file(s, file_path, readable) ==
    IF ~InList(s.current_files, file_path)
    THEN s
    ELSE LET remove_index == IndexOf(s.current_files, file_path) - 1
             s1 == [s EXCEPT !.current_files = RemoveAt(@, remove_index + 1),
                             !.file_items = pop_item(@, file_path)]
             s2 == IF remove_index <= s1.current_file_index
                   THEN [s1 EXCEPT !.current_file_index = Max(0, @ - 1)]
                   ELSE s1
             s3 == IF s2.file_items # <<>>
                   THEN LET s4 == IF s2.current_file_index >= Len(s2.file_items)
                                  THEN [s2 EXCEPT !.current_file_index = Len(s2.file_items) - 1]
                                  ELSE s2
                        IN select_file_item(s4, s4.current_file_index + 1, readable)
                   ELSE [setHtml(s2, 0, NoEv) EXCEPT !.current_file_index = 0]
         IN update_ui_state(s3)

prev_page(s, readable) ==
    IF s.current_file_index > 0
    THEN IF s.current_file_index - 1 < Len(s.file_items)
         THEN select_file_item(s, s.current_file_index, readable)
         ELSE Crash(s)
    ELSE s

next_page(s, readable) ==
    IF s.current_file_index < Len(s.file_items) - 1
    THEN select_file_item(s, s.current_file_index + 2, readable)
    ELSE s

(***************************************************************************)
(* Batch pipeline.  inp[i] is what the environment answers for the file at *)
(* position i when the pipeline reaches it.                                *)
(***************************************************************************)
\* the answers for a list of n files that may differ from "Yes" at the
\* positions R only
Answers(n, R) ==
    {[i \in 1..n |-> IF i \in R THEN g[i] ELSE "Yes"] : g \in [R \cap (1..n) -> Inputs]}

\* the event being handled belongs to the file at the cursor
Own(s) == s.ev = [job |-> s.jobs_started, pos |-> Cur(s)]

Note(s, what, own) == [s EXCEPT !.log = @ \cup {[pos |-> Cur(s), what |-> what, own |-> own]}]

\* Path(self.output_folder.text()) / f"{file_name}.pdf", in the one output folder
output_path_of(s, file_name) == file_name

\* self.conversion_errors.append(f"{file_name}.md: ..."); self.current_conversion_index += 1
\* the entry is the stem, the literal suffix ".md" and the reason
record_error(s, msg, own) ==
    [s EXCEPT !.conversion_errors =
                  Append(@, [file_name |-> Stem(s.current_files[Cur(s)]), ext |-> "md",
                             msg |-> msg]),
              !.error_at = Append(@, [pos |-> Cur(s), own |-> own]),
              !.current_conversion_index = @ + 1]

\* self.progress_bar.setValue(value): QProgressBar keeps its value when the
\* new one is outside its range 0..100; history: a value written outside the
\* range, or below the value shown
setValue(s, value) ==
    LET noted == (IF value < 0 \/ value > 100
                  THEN {[pos |-> 0, what |-> "progress_range", own |-> TRUE]} ELSE {})
                 \cup (IF value < s.progress_bar
                       THEN {[pos |-> 0, what |-> "progress_back", own |-> TRUE]} ELSE {})
    IN [s EXCEPT !.progress_bar = IF value < 0 \/ value > 100 THEN @ ELSE value,
                 !.log = @ \cup noted]

\* q[:k]
TakeOneLess(q, k) == SubSeq(q, 1, IF Len(q) < k - 1 THEN Len(q) ELSE k - 1)

Take(q, k) == SubSeq(q, 1, IF Len(q) < k THEN Len(q) ELSE k)

\* the status line and message box: all succeeded, or the counts, the first
\* error lines and the number of the lines left out (0: no such line)
summary_of(total, errors) ==
    LET success_count == total - Len(errors)
    IN IF Len(errors) = 0
       THEN [shown |-> TRUE, all_succeeded |-> TRUE, success_count |-> success_count,
             failed |-> 0, details |-> <<>>, more |-> 0]
       ELSE [shown |-> TRUE, all_succeeded |-> FALSE, success_count |-> success_count,
             failed |-> Len(errors), details |-> Take(errors, ShownErrors),
             more |-> IF Len(errors) > ShownErrors THEN Len(errors) - ShownErrors ELSE 0]

on_all_conversions_finished(s) ==
    [setValue(s, 100) EXCEPT
              !.convert_btn = TRUE,
              !.summary = summary_of(s.total_files, s.conversion_errors),
              !.job_active = FALSE,
              !.finished = @ + 1]

\* output_path.exists() alone
asks_when_exists(s, output_path) == s.fs[output_path].exists

\* output_path.exists() and self.confirm_overwrite.isChecked()
asks_overwrite(s, output_path) == s.fs[output_path].exists /\ s.confirm_overwrite

\* the file at the cursor is reached; QMessageBox.question is shown for it
reached(s, asked) ==
    IF asked THEN Note(Note(s, "reach", TRUE), "ask", TRUE) ELSE Note(s, "reach", TRUE)

\* reply == QMessageBox.Cancel
answer_cancel(s) == [Note(s, "cancel", TRUE) EXCEPT !.cancelled = Cur(s)]

\* variant: No is recorded as an error of the file
answer_no_as_error(s) == record_error(Note(s, "skip", TRUE), "skipped", TRUE)

\* reply == QMessageBox.No
answer_no(s) == [Note(s, "skip", TRUE) EXCEPT !.current_conversion_index = @ + 1]

\* the try block of convert_next_file, the source file being readable
start_load(s, current_file, output_path) ==
    LET file_progress == (s.current_conversion_index * 100) \div s.total_files
        step_progress == 20 \div s.total_files
        s1 == [Note(setValue(s, file_progress + step_progress), "load", TRUE) EXCEPT
                   !.current_output_path = output_path,
                   !.receivers = @ + 1]
    IN setHtml(s1, current_file, [job |-> s.jobs_started, pos |-> Cur(s)])

RECURSIVE convert_next_file(_, _)
convert_next_file(s, inp) ==
    IF s.current_conversion_index >= s.total_files
    THEN on_all_conversions_finished(s)
    ELSE IF Cur(s) > Len(s.current_files)
    THEN Crash(s)
    ELSE LET current_file == s.current_files[Cur(s)]
             file_name == Stem(current_file)
             overall_progress == (s.current_conversion_index * 100) \div s.total_files
             output_path == output_path_of(s, file_name)
             s1 == reached(setValue(s, overall_progress), asks_overwrite(s, output_path))
             reply == inp[Cur(s)]
         IN IF asks_overwrite(s1, output_path) /\ reply = "Cancel"
            THEN on_all_conversions_finished(answer_cancel(s1))
            ELSE IF asks_overwrite(s1, output_path) /\ reply = "No"
            THEN convert_next_file(answer_no(s1), inp)
            ELSE IF reply = "Unreadable"
            THEN convert_next_file(record_error(s1, "read", TRUE), inp)
            ELSE start_load(s1, current_file, output_path)

\* the common tail of the failure branches: name the file at the cursor,
\* record, advance, go on
fail_current(s, msg, inp) ==
    IF Cur(s) > Len(s.current_files)
    THEN Crash(s)
    ELSE convert_next_file(record_error(s, msg, Own(s)), inp)

\* convert_to_pdf without its first check
convert_to_pdf_unchecked(s, inp) ==
    convert_next_file(
        [s EXCEPT !.current_conversion_index = 0,
                  !.total_files = Len(s.current_files),
                  !.conversion_errors = <<>>,
                  !.progress_bar = 0,
                  !.convert_btn = FALSE,
                  !.job_active = TRUE,
                  !.jobs_started = @ + 1,
                  !.finished = 0,
                  !.cancelled = 0,
                  !.error_at = <<>>,
                  !.log = {}], inp)

\* QMessageBox.warning and return when the list or the output folder is empty
convert_to_pdf(s, inp) ==
    IF s.current_files = <<>> \/ s.output_folder = 0
    THEN [s EXCEPT !.warnings = @ + 1]
    ELSE convert_next_file(
             [s EXCEPT !.current_conversion_index = 0,
                       !.total_files = Len(s.current_files),
                       !.conversion_errors = <<>>,
                       !.progress_bar = 0,
                       !.convert_btn = FALSE,
                       !.job_active = TRUE,
                       !.jobs_started = @ + 1,
                       !.finished = 0,
                       !.cancelled = 0,
                       !.error_at = <<>>,
                       !.log = {}], inp)

\* the success branch of on_html_loaded: disconnect, progress, settle timer
load_succeeded(s) ==
    LET file_progress == (s.current_conversion_index * 100) \div s.total_files
        step_progress == 40 \div s.total_files
    IN [setValue(s, file_progress + step_progress) EXCEPT
                 !.receivers = 0,
                 !.disc = TRUE,
                 !.timers = Append(@, [fn |-> "generate_pdf", path |-> 0,
                                       job |-> s.ev.job, pos |-> s.ev.pos])]

\* variant: the handler does not look at the result of the load
on_html_loaded_any_result(s, success, inp) == load_succeeded(s)

on_html_loaded(s, success, inp) ==
    IF ~success
    THEN fail_current(s, "HTML load failed", inp)
    ELSE load_succeeded(s)

\* self.web_view.page().printToPdf(output_path, page_layout) and the 10 s timer
print_to_pdf(s, output_path) ==
    [Note(s, "print", Own(s)) EXCEPT
        !.printing = @ \cup {[path |-> output_path, html |-> s.web_html,
                              job |-> s.ev.job, pos |-> s.ev.pos]},
        !.timers = Append(@, [fn |-> "check_pdf_generation", path |-> output_path,
                              job |-> s.ev.job, pos |-> s.ev.pos])]

\* raises: printToPdf raises an exception
generate_pdf(s, raises, inp) ==
    LET file_progress == (s.current_conversion_index * 100) \div s.total_files
        step_progress == 60 \div s.total_files
        s1 == setValue(s, file_progress + step_progress)
        output_path == s.current_output_path
    IN IF raises
       THEN fail_current(s1, "PDF generation error", inp)
       ELSE print_to_pdf(s1, output_path)

on_single_conversion_finished(s, success, output_path, inp) ==
    LET s1 == IF ~success
              THEN [s EXCEPT !.conversion_errors =
                                 Append(@, [file_name |-> Stem(s.current_files[Cur(s)]),
                                            ext |-> "md", msg |-> "conversion failed"]),
                             !.error_at = Append(@, [pos |-> Cur(s), own |-> Own(s)])]
              ELSE s
        file_progress == ((s.current_conversion_index + 1) * 100) \div s.total_files
    IN convert_next_file(
           [Note(setValue(s1, file_progress), "ok", Own(s1)) EXCEPT
                !.current_conversion_index = @ + 1], inp)

\* variant: the first poll gives up without a second one
wait_more_not_at_all(s, output_path) == s

\* QTimer.singleShot(5000, lambda: self.check_pdf_generation_final(output_path))
wait_more(s, output_path) ==
    [s EXCEPT !.timers = Append(@, [fn |-> "check_pdf_generation_final",
                                    path |-> output_path,
                                    job |-> s.ev.job, pos |-> s.ev.pos])]

\* history: the poll comes while the engine still works on this path
Polled(s, output_path) ==
    IF \E pr \in s.printing : pr.path = output_path
    THEN Note(s, "poll_early", TRUE)
    ELSE s

check_pdf_generation(s0, output_path, inp) ==
    LET s == Polled(s0, output_path)
    IN IF s.fs[output_path].exists
       THEN IF s.fs[output_path].size > 1024
            THEN on_single_conversion_finished(s, TRUE, output_path, inp)
            ELSE wait_more(s, output_path)
       ELSE wait_more(s, output_path)

check_pdf_generation_final(s0, output_path, inp) ==
    LET s == Polled(s0, output_path)
    IN IF s.fs[output_path].exists
       THEN IF s.fs[output_path].size > 0
            THEN IF Cur(s) > Len(s.current_files)
                 THEN Crash(s)
                 ELSE on_single_conversion_finished(s, TRUE, output_path, inp)
            ELSE fail_current(s, "PDF file is empty (0 bytes)", inp)
       ELSE fail_current(s, "PDF file was not generated", inp)

RECURSIVE emit(_, _, _, _)
\* loadFinished(success) with n connections at the start of the emission:
\* the slots run in connection order; a slot disconnected meanwhile is
\* skipped, a connection made meanwhile is not served by this emission
emit(s, n, success, inp) ==
    IF n = 0 \/ s.crashed \/ s.disc
    THEN s
    ELSE emit([on_html_loaded(s, success, inp) EXCEPT !.last_invocations = @ + 1],
              n - 1, success, inp)

(***************************************************************************)
(* Initial state: the window after __init__, and the output directory as   *)
(* it is on disk.                                                          *)
(***************************************************************************)
Init ==
    /\ current_files = <<>>
    /\ file_items = <<>>
    /\ current_file_index = 0
    /\ output_folder = 0
    /\ confirm_overwrite = TRUE
    /\ convert_btn = FALSE
    /\ clear_files_btn = FALSE
    /\ prev_page_btn = FALSE
    /\ next_page_btn = FALSE
    /\ progress_bar = 0
    /\ current_conversion_index = 0
    /\ total_files = 0
    /\ conversion_errors = <<>>
    /\ current_output_path = 0
    /\ web_html = 0
    /\ receivers = 0
    /\ loads = <<>>
    /\ timers = <<>>
    /\ printing = {}
    /\ fs \in [Stems -> {NoFile, OldFile}]
    /\ crashed = FALSE
    /\ job_active = FALSE
    /\ jobs_started = 0
    /\ finished = 0
    /\ cancelled = 0
    /\ error_at = <<>>
    /\ log = {}
    /\ last_invocations = 0
    /\ clicks = 0
    /\ warnings = 0
    /\ summary = NoSummary
    /\ pagebreak_input = page_break_marker
    /\ include_toc = TRUE
    /\ markdown_content = <<>>
    /\ html_content = NoHtml
    /\ rendered = NoCall
    /\ first_added = <<>>
    /\ last_added = <<>>

(***************************************************************************)
(* User actions.                                                           *)
(***************************************************************************)
\* the user can act: the process lives and the budget of actions is not used up
CanClick == ~crashed /\ clicks < MaxClicks

\* a user action that loads a preview
CanPreview == CanClick /\ Len(loads) < MaxLoads

Clicked(s) == [s EXCEPT !.clicks = @ + 1]

\* the lists browse_input_files and dropEvent may hand to add_files
FileLists == UNION {[1..n -> Paths] : n \in 1..MaxList}

AddFiles ==
    /\ CanPreview
    /\ \E file_paths \in FileLists, readable \in BOOLEAN :
          LET t == add_files(Clicked(St), file_paths, readable)
          IN /\ Len(t.current_files) <= MaxList
             /\ Becomes(t)

ClearFiles ==
    /\ CanPreview
    /\ clear_files_btn
    /\ Becomes(clear_files(Clicked(St)))

\* the delete button of the k-th file item
RemoveSingleFile ==
    /\ CanPreview
    /\ \E k \in 1..Len(file_items), readable \in BOOLEAN :
          Becomes(remove_single_file(Clicked(St), file_items[k].file_path, readable))

\* a mouse press on the k-th file item
SelectFileItem ==
    /\ CanPreview
    /\ \E k \in 1..Len(file_items), readable \in BOOLEAN :
          Becomes(select_file_item(Clicked(St), k, readable))

PrevPage ==
    /\ CanPreview
    /\ prev_page_btn
    /\ \E readable \in BOOLEAN : Becomes(prev_page(Clicked(St), readable))

NextPage ==
    /\ CanPreview
    /\ next_page_btn
    /\ \E readable \in BOOLEAN : Becomes(next_page(Clicked(St), readable))

ToggleConfirmOverwrite ==
    /\ CanClick
    /\ Becomes([Clicked(St) EXCEPT !.confirm_overwrite = ~@])

\* browse_output_folder with a folder chosen
BrowseOutputFolder ==
    /\ CanClick
    /\ output_folder = 0
    /\ Becomes([Clicked(St) EXCEPT !.output_folder = 1])

\* a click on the convert button
ConvertToPdf ==
    /\ CanClick
    /\ convert_btn
    /\ jobs_started < MaxJobs \/ current_files = <<>> \/ output_folder = 0
    /\ \E inp \in Answers(Len(current_files), 1..Len(current_files)) :
          Becomes(convert_to_pdf(Clicked(St), inp))

(***************************************************************************)
(* Environment: the engine emits loadFinished, timers fire, prints end.    *)
(***************************************************************************)
\* the positions a handler that advances the cursor may still reach
Later == (current_conversion_index + 2)..total_files

\* the oldest load in flight ends and loadFinished(success) is emitted; every
\* load started by setHtml reports once, with success or with failure
LoadFinished ==
    /\ ~crashed
    /\ loads # <<>>
    /\ \E success \in BOOLEAN :
       \E inp \in Answers(total_files, IF success \/ receivers = 0 THEN {} ELSE Later) :
          LET tok == Head(loads)
              s0 == [St EXCEPT !.loads = Tail(@),
                               !.ev = [job |-> tok.job, pos |-> tok.pos],
                               !.last_invocations = 0]
              s1 == IF ~success /\ receivers > 0
                    THEN [s0 EXCEPT !.log = @ \cup {[pos |-> IF tok.job = jobs_started
                                                              THEN tok.pos ELSE 0,
                                                     what |-> "signal_failed",
                                                     own |-> TRUE]}]
                    ELSE s0
          IN Becomes(emit(s1, receivers, success, inp))

\* the timers of one callback fire in the order they were started
Due(i) == \A j \in 1..(i - 1) : timers[j].fn # timers[i].fn

Fired(i) == [St EXCEPT !.timers = RemoveAt(@, i),
                       !.ev = [job |-> timers[i].job, pos |-> timers[i].pos]]

GeneratePdf ==
    /\ ~crashed
    /\ \E i \in 1..Len(timers), raises \in BOOLEAN :
       \E inp \in Answers(total_files, IF raises THEN Later ELSE {}) :
          /\ timers[i].fn = "generate_pdf"
          /\ Due(i)
          /\ Becomes(generate_pdf(Fired(i), raises, inp))

CheckPdfGeneration ==
    /\ ~crashed
    /\ \E i \in 1..Len(timers), inp \in Answers(total_files, Later) :
          /\ timers[i].fn = "check_pdf_generation"
          /\ Due(i)
          /\ Becomes(check_pdf_generation(Fired(i), timers[i].path, inp))

CheckPdfGenerationFinal ==
    /\ ~crashed
    /\ \E i \in 1..Len(timers), inp \in Answers(total_files, Later) :
          /\ timers[i].fn = "check_pdf_generation_final"
          /\ Due(i)
          /\ Becomes(check_pdf_generation_final(Fired(i), timers[i].path, inp))

\* history: how a print request of this job ended
EngineNote(pr, what) ==
    [pos |-> IF pr.job = jobs_started THEN pr.pos ELSE 0, what |-> what, own |-> TRUE]

\* the engine writes the PDF of a print request
PrintFinished ==
    /\ ~crashed
    /\ \E pr \in printing, size \in PdfSizes :
          Becomes([St EXCEPT !.printing = @ \ {pr},
                             !.fs[pr.path] = [exists |-> TRUE, size |-> size,
                                              html |-> pr.html, job |-> pr.job,
                                              pos |-> pr.pos],
                             !.log = @ \cup {EngineNote(pr, IF size > 0 THEN "written"
                                                                       ELSE "written_empty")}])

\* the engine gives up a print request and writes nothing
PrintFailed ==
    /\ ~crashed
    /\ \E pr \in printing :
          Becomes([St EXCEPT !.printing = @ \ {pr},
                             !.log = @ \cup {EngineNote(pr, "lost")}])

User ==
    \/ AddFiles
    \/ ClearFiles
    \/ RemoveSingleFile
    \/ SelectFileItem
    \/ PrevPage
    \/ NextPage
    \/ ToggleConfirmOverwrite
    \/ BrowseOutputFolder
    \/ ConvertToPdf

Engine ==
    \/ LoadFinished
    \/ GeneratePdf
    \/ CheckPdfGeneration
    \/ CheckPdfGenerationFinal
    \/ PrintFinished
    \/ PrintFailed

Next == User \/ Engine

Spec == Init /\ [][Next]_vars

(***************************************************************************)
(* One job that runs undisturbed: the user has added a list of documents,  *)
(* the preview of the first one is loaded, the options are set; the user   *)
(* clicks the convert button once and leaves the window alone.             *)
(***************************************************************************)
\* the lists the user gets by adding documents in the order of their paths
DocLists ==
    {q \in UNION {[1..n -> Paths] : n \in 1..MaxFiles} :
        \A i, j \in 1..Len(q) : i < j => q[i] < q[j]}

InitJob ==
    /\ current_files \in DocLists
    /\ file_items = [i \in 1..Len(current_files) |->
                        [file_path |-> current_files[i], selected |-> i = 1]]
    /\ current_file_index = 0
    /\ output_folder = 1
    /\ confirm_overwrite \in BOOLEAN
    /\ convert_btn = TRUE
    /\ clear_files_btn = TRUE
    /\ prev_page_btn = FALSE
    /\ next_page_btn = (1 < Len(current_files))
    /\ progress_bar = 0
    /\ current_conversion_index = 0
    /\ total_files = 0
    /\ conversion_errors = <<>>
    /\ current_output_path = 0
    /\ web_html = current_files[1]
    /\ receivers = 0
    /\ loads = <<>>
    /\ timers = <<>>
    /\ printing = {}
    /\ fs \in [Stems -> {NoFile, OldFile}]
    /\ crashed = FALSE
    /\ job_active = FALSE
    /\ jobs_started = 0
    /\ finished = 0
    /\ cancelled = 0
    /\ error_at = <<>>
    /\ log = {}
    /\ last_invocations = 0
    /\ clicks = 0
    /\ warnings = 0
    /\ summary = NoSummary
    /\ pagebreak_input = page_break_marker
    /\ include_toc = TRUE
    /\ markdown_content = <<>>
    /\ html_content = NoHtml
    /\ rendered = NoCall
    /\ first_added = current_files
    /\ last_added = current_files

StartJob == jobs_started = 0 /\ ConvertToPdf

NextJob == StartJob \/ Engine

SpecJob == InitJob /\ [][NextJob]_vars

(***************************************************************************)
(* Vocabulary of the properties.                                           *)
(***************************************************************************)
\* on_all_conversions_finished has run for the job
Done == jobs_started > 0 /\ finished > 0

\* positions whose load the engine reported as failed to the pipeline
FailedLoads == {e.pos : e \in {x \in log : x.what = "signal_failed"}}

\* the pipeline did this at position pos
Did(pos, what) == \E e \in log : e.pos = pos /\ e.what = what

\* an error entry was recorded with the cursor at position pos
ErrorAt(pos) == \E i \in 1..Len(error_at) : error_at[i].pos = pos

\* the file at position pos got an outcome of its own
Settled(pos) ==
    \/ \E i \in 1..Len(error_at) : error_at[i].pos = pos /\ error_at[i].own
    \/ [pos |-> pos, what |-> "skip", own |-> TRUE] \in log
    \/ [pos |-> pos, what |-> "ok", own |-> TRUE] \in log

\* something of the job is still under way for position pos
Pending(pos) ==
    \/ \E i \in 1..Len(loads) : loads[i].job = jobs_started /\ loads[i].pos = pos
    \/ \E i \in 1..Len(timers) : timers[i].job = jobs_started /\ timers[i].pos = pos
    \/ \E pr \in printing : pr.job = jobs_started /\ pr.pos = pos

\* the output on disk at this stem was written by the print of position pos
WrittenBy(st, pos) == fs[st].exists /\ fs[st].job = jobs_started /\ fs[st].pos = pos

(***************************************************************************)
(* C1: the cursor stays in [0, total_files], and with the cursor at        *)
(* total_files the pipeline takes no further step: no load, print or       *)
(* verified output is ever noted at a position after the last file.        *)
(***************************************************************************)
C1_CursorInRangeAndTerminal ==
    /\ 0 <= current_conversion_index
    /\ current_conversion_index <= total_files
    /\ \A e \in log : e.what \in {"load", "print", "ok"} => e.pos <= total_files

(***************************************************************************)
(* C2: the HTML of a later file is never loaded while the print of an      *)
(* earlier file of the job is still in progress in the engine.             *)
(***************************************************************************)
C2_NoLoadWhilePrinting ==
    \A pr \in printing : \A i \in 1..Len(loads) :
        ~(pr.job > 0 /\ loads[i].job = pr.job /\ loads[i].pos > pr.pos)

(***************************************************************************)
(* C3: while a job is active the convert button is disabled, so no second  *)
(* job can be started.                                                     *)
(***************************************************************************)
C3_ConvertDisabledWhileActive == job_active => ~convert_btn

(***************************************************************************)
(* C4: at most one on_html_loaded handler is connected to loadFinished,    *)
(* and one emitted load result invokes it at most once.                    *)
(***************************************************************************)
C4_OneHandlerOneInvocation == receivers <= 1 /\ last_invocations <= 1

(***************************************************************************)
(* C5: an error is recorded for a file only by that file's own failure,    *)
(* and a job that ends without Cancel has given every file an outcome of   *)
(* its own.                                                                *)
(***************************************************************************)
C5_ErrorsNonFatal ==
    /\ \A i \in 1..Len(error_at) : error_at[i].own
    /\ (Done /\ cancelled = 0) => \A pos \in 1..total_files : Settled(pos)

(***************************************************************************)
(* C6: with every load reporting and every timer firing, a started job     *)
(* reaches on_all_conversions_finished.                                    *)
(***************************************************************************)
C6_JobReachesDone == job_active ~> ~job_active

\* the steps the claim assumes to happen: a load reports, a timer fires
Progress ==
    \/ LoadFinished
    \/ GeneratePdf
    \/ CheckPdfGeneration
    \/ CheckPdfGenerationFinal

\* ENABLED <<Progress>>_vars written out: a load is in flight or a timer is
\* set (the first timer of the queue is always due), the process being alive
CanProgress == ~crashed /\ (loads # <<>> \/ timers # <<>>)

\* weak fairness of Progress, WF_vars(Progress), with its ENABLED replaced by
\* CanProgress; the engine need not ever end a print
SpecJobFair == SpecJob /\ ([]<>(~CanProgress) \/ []<><<Progress>>_vars)

\* a job ended although an output was missing or empty at the final poll
C6_Witness ==
    /\ Done
    /\ ~job_active
    /\ \E i \in 1..Len(conversion_errors) :
          conversion_errors[i].msg \in {"PDF file was not generated",
                                        "PDF file is empty (0 bytes)"}

(***************************************************************************)
(* C7: when the engine reports a load failure for file k and for no other  *)
(* load, exactly one "HTML load failed" entry exists and it names file k,  *)
(* the cursor has passed k, nothing was printed or written for k, and at   *)
(* the end of the job every other file has an outcome of its own and the   *)
(* job has finished once with the cursor at total_files.                   *)
(***************************************************************************)
LoadErrors == {i \in 1..Len(conversion_errors) : conversion_errors[i].msg = "HTML load failed"}

C7_SingleLoadFailure ==
    \A k \in 1..total_files :
        FailedLoads = {k} =>
            /\ Cardinality(LoadErrors) = 1
            /\ \A i \in LoadErrors :
                  /\ error_at[i].pos = k
                  /\ conversion_errors[i].file_name = Stem(current_files[k])
            /\ current_conversion_index >= k
            /\ ~Did(k, "print") /\ ~Did(k, "ok")
            /\ \A pr \in printing : ~(pr.job = jobs_started /\ pr.pos = k)
            /\ \A st \in Stems : ~WrittenBy(st, k)
            /\ (Done /\ cancelled = 0) =>
                  /\ finished = 1
                  /\ current_conversion_index = total_files
                  /\ \A pos \in 1..total_files : pos # k => Settled(pos)

\* [a, b] where the load of b failed: one entry, a.pdf written, b.pdf absent
C7_Witness ==
    /\ Done
    /\ total_files = 2
    /\ FailedLoads = {2}
    /\ Len(conversion_errors) = 1
    /\ Stem(current_files[1]) # Stem(current_files[2])
    /\ WrittenBy(Stem(current_files[1]), 1)
    /\ ~fs[Stem(current_files[2])].exists

(***************************************************************************)
(* C8: after Cancel at position k the cursor stays at k, nothing is loaded,*)
(* printed, written or recorded as an error for k or a later position, and *)
(* the job has produced at most k-1 outputs.                               *)
(***************************************************************************)
C8_CancelEndsJob ==
    cancelled # 0 =>
        /\ Cur(St) = cancelled
        /\ \A pos \in cancelled..total_files :
              /\ ~ErrorAt(pos)
              /\ ~Did(pos, "load") /\ ~Did(pos, "print") /\ ~Did(pos, "ok")
              /\ ~Pending(pos)
              /\ \A st \in Stems : ~WrittenBy(st, pos)
        /\ Cardinality({st \in Stems : \E pos \in 1..total_files : WrittenBy(st, pos)})
              <= cancelled - 1

(***************************************************************************)
(* C9: a file skipped with No is passed by the cursor without a load, a    *)
(* print, an output write or an error entry for it, and the pipeline goes  *)
(* on with the next position.                                              *)
(***************************************************************************)
C9_SkipWithoutLoad ==
    \A pos \in 1..total_files :
        Did(pos, "skip") =>
            /\ current_conversion_index >= pos
            /\ ~Did(pos, "load") /\ ~Did(pos, "print") /\ ~Did(pos, "ok")
            /\ ~ErrorAt(pos)
            /\ ~Pending(pos)
            /\ \A st \in Stems : ~WrittenBy(st, pos)
            /\ (pos < total_files /\ ~crashed) =>
                  \/ ErrorAt(pos + 1)
                  \/ \E e \in log : e.pos = pos + 1

\* a job finished in which a file was skipped and the old output is still there
C9_Witness ==
    /\ Done
    /\ \E pos \in 1..total_files :
          /\ Did(pos, "skip")
          /\ fs[Stem(current_files[pos])] = OldFile

(***************************************************************************)
(* C10: with overwrite confirmation off, every file readable, every load   *)
(* successful and every print written with a nonzero size before it is     *)
(* polled, the finished job has no errors, progress 100 and for each of    *)
(* the N inputs an output <stem>.pdf of its own: N outputs.                *)
(***************************************************************************)
\* the environment did all that the claim asks of it
AllWentWell ==
    /\ printing = {}
    /\ \A e \in log : e.what \notin {"signal_failed", "lost", "written_empty",
                                    "poll_early", "skip", "cancel"}
    /\ \A i \in 1..Len(conversion_errors) :
          conversion_errors[i].msg \notin {"read", "PDF generation error"}

C10_OneOutputPerInput ==
    (Done /\ ~job_active /\ ~confirm_overwrite /\ AllWentWell) =>
        /\ conversion_errors = <<>>
        /\ progress_bar = 100
        /\ \A i \in 1..total_files :
              /\ fs[Stem(current_files[i])].exists
              /\ fs[Stem(current_files[i])].size > 0
        /\ Cardinality({Stem(current_files[i]) : i \in 1..total_files}) = total_files

(***************************************************************************)
(* C11: a poll decides the outcome of the file whose print it verifies     *)
(* from the output file as it is at that poll.  First poll: a file above   *)
(* 1 KB is a success, anything else defers to the final poll.  Final poll: *)
(* an absent file gives the one error "not generated" for that file, an    *)
(* empty file the one error "empty", a nonzero file a success without any  *)
(* error entry for that file.  Every poll ends with exactly one of these.  *)
(***************************************************************************)
\* the timers set for one callback, and the one of them that fires next
TimersOf(q, fn) == {i \in 1..Len(q) : q[i].fn = fn}

NextTimer(fn) == timers[CHOOSE i \in TimersOf(timers, fn) : \A j \in TimersOf(timers, fn) : i <= j]

\* this step is the callback fn: one of its timers is gone
PollStep(fn) == Cardinality(TimersOf(timers', fn)) < Cardinality(TimersOf(timers, fn))

\* the step recorded msg as the one new error of the file verified by timer t
PollFailed(t, msg) ==
    /\ Len(conversion_errors') > Len(conversion_errors)
    /\ conversion_errors'[Len(conversion_errors) + 1] =
           [file_name |-> Stem(current_files[t.pos]), ext |-> "md", msg |-> msg]
    /\ \A i \in 1..Len(error_at') : error_at'[i].pos = t.pos <=> i = Len(error_at) + 1
    /\ [pos |-> t.pos, what |-> "ok", own |-> TRUE] \notin log'

\* the step made the file verified by timer t a success
PollSucceeded(t) ==
    /\ \A i \in 1..Len(error_at') : error_at'[i].pos # t.pos
    /\ [pos |-> t.pos, what |-> "ok", own |-> TRUE] \in log'

\* the step left the decision to the final poll
PollDeferred(t) ==
    /\ conversion_errors' = conversion_errors
    /\ [pos |-> t.pos, what |-> "ok", own |-> TRUE] \notin log'
    /\ timers'[Len(timers')] = [fn |-> "check_pdf_generation_final", path |-> t.path,
                                job |-> t.job, pos |-> t.pos]

FirstPollOutcome ==
    LET t == NextTimer("check_pdf_generation")
    IN IF fs[t.path].exists /\ fs[t.path].size > 1024
       THEN PollSucceeded(t)
       ELSE PollDeferred(t)

FinalPollOutcome ==
    LET t == NextTimer("check_pdf_generation_final")
    IN IF ~fs[t.path].exists
       THEN PollFailed(t, "PDF file was not generated")
       ELSE IF fs[t.path].size = 0
       THEN PollFailed(t, "PDF file is empty (0 bytes)")
       ELSE PollSucceeded(t)

C11_VerificationOutcome ==
    [][/\ PollStep("check_pdf_generation") => FirstPollOutcome
       /\ PollStep("check_pdf_generation_final") => FinalPollOutcome]_vars

(***************************************************************************)
(* C12: within a job every value written to the progress bar lies in       *)
(* 0..100 and is not below the value the bar shows.                        *)
(***************************************************************************)
C12_ProgressMonotone ==
    /\ progress_bar \in 0..100
    /\ \A e \in log : e.what \notin {"progress_range", "progress_back"}

(***************************************************************************)
(* The end of a job: every file of the job has been settled, some of them  *)
(* with an error, and convert_next_file is called with the cursor at the   *)
(* end of the list.                                                        *)
(***************************************************************************)
RECURSIVE Ascending(_)
\* the members of a set of positions, in order
Ascending(S) ==
    IF S = {} THEN <<>>
    ELSE LET m == CHOOSE x \in S : \A y \in S : x <= y
         IN <<m>> \o Ascending(S \ {m})

\* the reason a file of the job failed
ReasonAt(pos) == IF pos % 2 = 1 THEN "read" ELSE "PDF file was not generated"

InitSummary ==
    /\ total_files \in 1..MaxSummary
    /\ current_files = [i \in 1..total_files |-> i]
    /\ file_items = [i \in 1..Len(current_files) |->
                        [file_path |-> current_files[i], selected |-> i = 1]]
    /\ current_file_index = 0
    /\ output_folder = 1
    /\ confirm_overwrite = FALSE
    /\ convert_btn = FALSE
    /\ clear_files_btn = TRUE
    /\ prev_page_btn = FALSE
    /\ next_page_btn = (1 < Len(current_files))
    /\ current_conversion_index = total_files
    /\ error_at \in {[i \in 1..Len(q) |-> [pos |-> q[i], own |-> TRUE]] :
                        q \in {Ascending(S) : S \in SUBSET (1..total_files)}}
    /\ conversion_errors = [i \in 1..Len(error_at) |->
                               [file_name |-> Stem(current_files[error_at[i].pos]),
                                ext |-> "md", msg |-> ReasonAt(error_at[i].pos)]]
    /\ progress_bar = IF \E i \in 1..Len(error_at) : error_at[i].pos = total_files
                      THEN ((total_files - 1) * 100) \div total_files
                      ELSE 100
    /\ current_output_path = Stem(current_files[total_files])
    /\ web_html = current_files[total_files]
    /\ receivers = 0
    /\ loads = <<>>
    /\ timers = <<>>
    /\ printing = {}
    /\ fs = [st \in Stems |-> NoFile]
    /\ crashed = FALSE
    /\ job_active = TRUE
    /\ jobs_started = 1
    /\ finished = 0
    /\ cancelled = 0
    /\ log = {}
    /\ last_invocations = 0
    /\ clicks = 0
    /\ warnings = 0
    /\ summary = NoSummary
    /\ pagebreak_input = page_break_marker
    /\ include_toc = TRUE
    /\ markdown_content = <<>>
    /\ html_content = NoHtml
    /\ rendered = NoCall
    /\ first_added = current_files
    /\ last_added = current_files

\* convert_next_file finds the cursor at the end of the list
ConvertNextFileAtEnd ==
    /\ job_active
    /\ current_conversion_index >= total_files
    /\ Becomes(convert_next_file(St, <<>>))

SpecSummary == InitSummary /\ [][ConvertNextFileAtEnd]_vars

\* C13: the summary says "all succeeded" exactly when the error list is
\* empty; otherwise it lists the first min(5, n) of the n errors in the
\* order they were recorded and, when n > 5, counts the other n - 5.
C13_SummaryContent ==
    summary.shown =>
        LET n == Len(conversion_errors)
            shown == IF n < 5 THEN n ELSE 5
        IN /\ summary.all_succeeded <=> n = 0
           /\ summary.success_count = total_files - n
           /\ ~summary.all_succeeded =>
                  /\ summary.failed = n
                  /\ Len(summary.details) = shown
                  /\ \A i \in 1..shown : summary.details[i] = conversion_errors[i]
                  /\ summary.more = (IF n > 5 THEN n - 5 ELSE 0)

\* a job that ended with more errors than a summary lists
C13_Witness ==
    /\ summary.shown
    /\ Len(conversion_errors) > 5
    /\ Len(summary.details) = 5
    /\ summary.more > 0

\* C14: the end-of-job summary is produced once per job and never a second
\* time (that it is produced at all when every signal and timer arrives is
\* C6_JobReachesDone).
C14_SummaryOnce == jobs_started > 0 => finished <= 1

\* C15 (count): the error list is never longer than the list of the job.
C15_CountBounded == jobs_started > 0 => Len(conversion_errors) <= total_files

\* C15 (one entry per file): no two entries were recorded for the same file.
C15_OnePerFile ==
    \A i, j \in 1..Len(error_at) : error_at[i].pos = error_at[j].pos => i = j

\* C15 (own failure): every entry was recorded for a file of the job whose
\* own read, load, print or verification failed, under the name of that file.
C15_OwnFailure ==
    \A i \in 1..Len(error_at) :
        /\ error_at[i].own
        /\ error_at[i].pos \in 1..Len(current_files)
        /\ conversion_errors[i].file_name = Stem(current_files[error_at[i].pos])

\* C15: errors are recorded at file granularity: at most one entry per file
\* of the job, each entry for the file whose own step failed, and so never
\* more entries than files.
C15_ErrorGranularity ==
    /\ Len(error_at) = Len(conversion_errors)
    /\ C15_OnePerFile
    /\ C15_OwnFailure
    /\ C15_CountBounded

\* the shared state of the running job
JobState == <<current_conversion_index, conversion_errors, current_output_path>>

\* a preview or list-management action of the user
PreviewOrListAction ==
    \/ SelectFileItem
    \/ PrevPage
    \/ NextPage
    \/ AddFiles
    \/ RemoveSingleFile
    \/ ClearFiles

\* the loadFinished of a load that a preview or list action started while
\* a job was running
PreviewSignal ==
    /\ loads # <<>>
    /\ Head(loads).job = 0
    /\ Head(loads).busy
    /\ LoadFinished

\* C16: while a job runs, no preview or list-management action changes the
\* cursor, the error list or the output path, neither directly nor through
\* the signal its load emits on the shared web view.
C16_PreviewLeavesJobState ==
    [][(job_active /\ (PreviewOrListAction \/ PreviewSignal)) => UNCHANGED JobState]_vars

(***************************************************************************)
(* The renderer: markdown_to_html as load_markdown_file and                *)
(* convert_next_file call it, on texts and markers over a small alphabet.  *)
(***************************************************************************)
RECURSIVE replace_first(_, _, _)
\* str.replace(old, new, 1)
replace_first(text, old, new) ==
    IF old = <<>> THEN new \o text
    ELSE IF Len(text) < Len(old) THEN text
    ELSE IF SubSeq(text, 1, Len(old)) = old
    THEN new \o SubSeq(text, Len(old) + 1, Len(text))
    ELSE <<Head(text)>> \o replace_first(Tail(text), old, new)

RECURSIVE replace(_, _, _)
\* str.replace(old, new): the occurrences of old are found from left to
\* right, each search starting behind the occurrence before; an empty old
\* matches before every character and at the end
replace(text, old, new) ==
    IF old = <<>>
    THEN IF text = <<>> THEN new
         ELSE new \o <<Head(text)>> \o replace(Tail(text), old, new)
    ELSE IF Len(text) < Len(old) THEN text
    ELSE IF SubSeq(text, 1, Len(old)) = old
    THEN new \o replace(SubSeq(text, Len(old) + 1, Len(text)), old, new)
    ELSE <<Head(text)>> \o replace(Tail(text), old, new)

\* the extension list handed to markdown.Markdown
extensions(toc) ==
    {"fenced_code", "tables", "nl2br", "sane_lists", "codehilite", "attr_list",
     "def_list", "footnotes", "md_in_html", "meta"}
        \cup (IF toc THEN {"toc"} ELSE {})

\* the option of the call before (of this call when there was none)
toc_of_last_call(s) == IF s.html_content.made THEN s.html_content.toc ELSE s.include_toc

toc_of(s) == s.include_toc

\* markdown.Markdown(extensions=extensions): a new converter
Markdown(exts) == [extensions |-> exts, converted |-> 0]

\* md.convert(text): the library as a function of the converter and the text
convert(md, text) == [source |-> text, extensions |-> md.extensions, nth |-> md.converted]

\* self.pagebreak_input.text() or self.page_break_marker
marker_of(s) == IF s.pagebreak_input # <<>> THEN s.pagebreak_input ELSE page_break_marker

\* the text after the substitution step
substituted(s, text) == replace(text, marker_of(s), PageBreak)

\* the return value of markdown_to_html: the template around body_html
markdown_to_html(s, text) ==
    LET md == Markdown(extensions(toc_of(s)))
        body_html == convert(md, substituted(s, text))
    IN [body_html |-> body_html]

\* a call of markdown_to_html with its arguments and its result
Call(s, text) ==
    [made |-> TRUE, marker |-> marker_of(s), toc |-> s.include_toc,
     html |-> markdown_to_html(s, text)]

\* a document is rendered for the preview or for a conversion; the first
\* call is remembered, and whether a call with another text or another
\* option came after it
render(s, text) ==
    [s EXCEPT !.markdown_content = text,
              !.html_content = Call(s, text),
              !.rendered = IF @.made
                           THEN [@ EXCEPT !.between = @ \/ text # s.rendered.text
                                                       \/ Call(s, text) # s.rendered.call]
                           ELSE [made |-> TRUE, text |-> text, call |-> Call(s, text),
                                 between |-> FALSE]]

InitRender ==
    /\ current_files = <<1>>
    /\ file_items = [i \in 1..Len(current_files) |->
                        [file_path |-> current_files[i], selected |-> i = 1]]
    /\ current_file_index = 0
    /\ output_folder = 1
    /\ confirm_overwrite = TRUE
    /\ convert_btn = TRUE
    /\ clear_files_btn = TRUE
    /\ prev_page_btn = FALSE
    /\ next_page_btn = FALSE
    /\ progress_bar = 0
    /\ current_conversion_index = 0
    /\ total_files = 0
    /\ conversion_errors = <<>>
    /\ current_output_path = 0
    /\ web_html = 0
    /\ receivers = 0
    /\ loads = <<>>
    /\ timers = <<>>
    /\ printing = {}
    /\ fs = [st \in Stems |-> NoFile]
    /\ crashed = FALSE
    /\ job_active = FALSE
    /\ jobs_started = 0
    /\ finished = 0
    /\ cancelled = 0
    /\ error_at = <<>>
    /\ log = {}
    /\ last_invocations = 0
    /\ clicks = 0
    /\ warnings = 0
    /\ summary = NoSummary
    /\ pagebreak_input \in Markers
    /\ include_toc = TRUE
    /\ markdown_content = <<>>
    /\ html_content = NoHtml
    /\ rendered = NoCall
    /\ first_added = current_files
    /\ last_added = current_files

\* the first document is rendered
RenderDocument ==
    /\ ~rendered.made
    /\ \E text \in Texts : Becomes(render(St, text))

\* later calls: the same text again, the empty text, the marker alone
RenderAgain ==
    /\ rendered.made
    /\ \E text \in {rendered.text, <<>>, marker_of(St)} : Becomes(render(St, text))

\* the user ticks or unticks the table-of-contents option
ToggleIncludeToc ==
    /\ rendered.made
    /\ Becomes([St EXCEPT !.include_toc = ~@])

NextRender == RenderDocument \/ RenderAgain \/ ToggleIncludeToc

SpecRender == InitRender /\ [][NextRender]_vars

RECURSIVE count(_, _)
\* str.count(pat) for a non-empty pat: occurrences from left to right, each
\* search starting behind the occurrence before
count(text, pat) ==
    IF Len(text) < Len(pat) THEN 0
    ELSE IF SubSeq(text, 1, Len(pat)) = pat
    THEN 1 + count(SubSeq(text, Len(pat) + 1, Len(text)), pat)
    ELSE count(Tail(text), pat)

\* pat in text
Contains(text, pat) ==
    \E i \in 1..(Len(text) - Len(pat) + 1) : SubSeq(text, i, i + Len(pat) - 1) = pat

\* a non-empty end of a is a beginning of b
EndBegins(a, b) ==
    \E n \in 1..(IF Len(a) < Len(b) THEN Len(a) ELSE Len(b)) :
        SubSeq(a, Len(a) - n + 1, Len(a)) = SubSeq(b, 1, n)

\* two strings that cannot share characters of a text: neither contains the
\* other, no end of one is a beginning of the other
Apart(a, b) ==
    /\ ~Contains(a, b)
    /\ ~Contains(b, a)
    /\ ~EndBegins(a, b)
    /\ ~EndBegins(b, a)

\* the text of the last call after the substitution step
LastSubstituted == html_content.html.body_html.source

\* C17: after the substitution step the text holds one page-break element
\* per occurrence of the marker in the input and no raw marker, for any
\* text and any non-empty marker.
C17_MarkerSubstitution ==
    html_content.made =>
        /\ count(LastSubstituted, PageBreak) = count(markdown_content, html_content.marker)
        /\ ~Contains(LastSubstituted, html_content.marker)

\* C17 as amended: the same, for a text that does not hold the page-break
\* element already and a marker that is apart from the element.
C17_MarkerSubstitutionApart ==
    (/\ html_content.made
     /\ ~Contains(markdown_content, PageBreak)
     /\ Apart(html_content.marker, PageBreak)) =>
        /\ count(LastSubstituted, PageBreak) = count(markdown_content, html_content.marker)
        /\ ~Contains(LastSubstituted, html_content.marker)

\* a text with two occurrences of a marker that is apart from the element
C17_Witness ==
    /\ html_content.made
    /\ ~Contains(markdown_content, PageBreak)
    /\ Apart(html_content.marker, PageBreak)
    /\ count(markdown_content, html_content.marker) >= 2
    /\ count(LastSubstituted, PageBreak) >= 2

InitList == Init /\ fs = [st \in Stems |-> NoFile]

NextList == AddFiles \/ RemoveSingleFile \/ ClearFiles \/ LoadFinished

SpecList == InitList /\ [][NextList]_vars

\* a comes before b in q
Before(q, a, b) == IndexOf(q, a) < IndexOf(q, b)

\* no path is in the document list twice
NoDuplicates ==
    \A i, j \in 1..Len(current_files) : current_files[i] = current_files[j] => i = j

\* the paths of the document list stand in the order they have in q
OrderedAs(q) ==
    \A i, j \in 1..Len(current_files) :
        i < j => Before(q, current_files[i], current_files[j])

\* C19: the document list holds no path twice, and the paths in it stand in
\* the order in which they were first added.
C19_UniqueInFirstAddedOrder == NoDuplicates /\ OrderedAs(first_added)

\* C19 as amended: the document list holds no path twice, and the paths in
\* it stand in the order of their latest addition: a path removed and added
\* again stands at the end.
C19_UniqueInLastAddedOrder == NoDuplicates /\ OrderedAs(last_added)

\* a path was removed and added again behind a path that stayed
C19_Witness ==
    /\ Len(current_files) >= 2
    /\ \E i, j \in 1..Len(current_files) :
          /\ i < j
          /\ Before(first_added, current_files[j], current_files[i])
          /\ Before(last_added, current_files[i], current_files[j])

\* the prints a step issues
Issued == printing' \ printing

\* C20: every print issued while a file is at the cursor writes to the
\* output path computed from that file, <output_dir>/<stem>.pdf, and never
\* to the path of another file.
C20_PrintsToPathOfCursorFile ==
    [][\A pr \in Issued :
          current_conversion_index < Len(current_files) =>
              pr.path = output_path_of(St, Stem(current_files[current_conversion_index + 1]))]_vars

(***************************************************************************)
(* The window while no job runs, up to the click that starts one.  It is   *)
(* either new, or a job for one document has just ended whose list the     *)
(* user cleared while it ran: on_all_conversions_finished then enables the *)
(* convert button over an empty list.                                      *)
(***************************************************************************)
AfterClearedJob ==
    /\ current_files = <<>>
    /\ file_items = <<>>
    /\ current_file_index = 0
    /\ output_folder = 1
    /\ confirm_overwrite = TRUE
    /\ convert_btn = TRUE
    /\ clear_files_btn = FALSE
    /\ prev_page_btn = FALSE
    /\ next_page_btn = FALSE
    /\ progress_bar = 100
    /\ current_conversion_index = 1
    /\ total_files = 1
    /\ conversion_errors = <<>>
    /\ current_output_path = Stem(1)
    /\ web_html = 0
    /\ receivers = 0
    /\ loads = <<>>
    /\ timers = <<>>
    /\ printing = {}
    /\ fs = [st \in Stems |->
                IF st = Stem(1)
                THEN [exists |-> TRUE, size |-> 2048, html |-> 0, job |-> 1, pos |-> 1]
                ELSE NoFile]
    /\ crashed = FALSE
    /\ job_active = FALSE
    /\ jobs_started = 1
    /\ finished = 1
    /\ cancelled = 0
    /\ error_at = <<>>
    /\ log = {[pos |-> 1, what |-> what, own |-> TRUE] :
                  what \in {"reach", "load", "print", "ok", "written"}}
    /\ last_invocations = 0
    /\ clicks = 0
    /\ warnings = 0
    /\ summary = summary_of(1, <<>>)
    /\ pagebreak_input = page_break_marker
    /\ include_toc = TRUE
    /\ markdown_content = <<>>
    /\ html_content = NoHtml
    /\ rendered = NoCall
    /\ first_added = <<1>>
    /\ last_added = <<1>>

InitIdle == InitList \/ AfterClearedJob

\* the user adds documents, chooses the output folder and clicks the
\* convert button; the previews come to their end
NextIdle ==
    /\ ~job_active
    /\ \/ AddFiles
       \/ BrowseOutputFolder
       \/ ConvertToPdf
       \/ LoadFinished

SpecIdle == InitIdle /\ [][NextIdle]_vars

\* what a refused click on the convert button must leave alone: the cursor,
\* the error list, the progress value, the job and the engine
JobAndEngine ==
    <<current_conversion_index, total_files, conversion_errors, progress_bar,
      job_active, jobs_started, receivers, loads, timers, printing, web_html>>

\* C21: convert_to_pdf with an empty document list or an empty output folder
\* starts no job: it shows a warning and leaves the cursor, the error list,
\* the progress value and the engine untouched.
C21_NoJobWithoutListOrFolder ==
    [][((current_files = <<>> \/ output_folder = 0) /\ ConvertToPdf) =>
           (warnings' = warnings + 1 /\ UNCHANGED JobAndEngine)]_vars

\* the convert button was clicked with documents in the list and no output
\* folder, and no job has started
C21_Witness ==
    /\ warnings > 0
    /\ current_files # <<>>
    /\ output_folder = 0
    /\ jobs_started = 0
    /\ loads = <<>>

\* the convert button was clicked over an empty list after a job
C21_WitnessEmptyList ==
    /\ warnings > 0
    /\ current_files = <<>>
    /\ output_folder # 0

\* a print is issued by the settle timer of the successful load of the file
\* at the cursor (a timer carries the load whose signal started it)
PrintAfterOwnLoad ==
    \A pr \in Issued :
        /\ pr.job = jobs_started
        /\ pr.pos = current_conversion_index + 1
        /\ [pos |-> pr.pos, what |-> "load", own |-> TRUE] \in log

\* a poll verifies the file at the cursor after the print of that file
PollAfterOwnPrint ==
    \A fn \in {"check_pdf_generation", "check_pdf_generation_final"} :
        PollStep(fn) =>
            /\ NextTimer(fn).job = jobs_started
            /\ NextTimer(fn).pos = current_conversion_index + 1
            /\ [pos |-> NextTimer(fn).pos, what |-> "print", own |-> TRUE] \in log

\* C22: for every file the steps come in the order load start, successful
\* load signal, settle timer, print, verification polls, cursor advance: no
\* print without the successful load of that same file before it, no poll
\* before the print of that file.
C22_PipelineOrder == [][PrintAfterOwnLoad /\ PollAfterOwnPrint]_vars

\* the step notes what for the file at position k
NewAt(k, what) == [pos |-> k, what |-> what, own |-> TRUE] \in log' \ log

\* the step records that the file at position k could not be read
ReadErrorAt(k) ==
    \E i \in (Len(error_at) + 1)..Len(error_at') :
        error_at'[i].pos = k /\ conversion_errors'[i].msg = "read"

\* the step reads the file at position k and hands it to the web view
LoadStartedAt(k) ==
    /\ NewAt(k, "load")
    /\ \E i \in 1..Len(loads') :
          /\ loads'[i].html = current_files[k]
          /\ loads'[i].job = jobs_started'
          /\ loads'[i].pos = k

\* C23: the overwrite question is asked for a file exactly when its output
\* exists and confirm-overwrite is on as the file is reached; without the
\* question the file is neither skipped nor the job cancelled, and a file
\* that is asked and answered Yes goes on as a file that was not asked: it
\* is read and loaded.
C23_OverwriteDecision ==
    [][\A k \in 1..Len(current_files) :
          NewAt(k, "reach") =>
              /\ NewAt(k, "ask") <=>
                     (fs[output_path_of(St, Stem(current_files[k]))].exists /\ confirm_overwrite)
              /\ ~NewAt(k, "ask") => (~NewAt(k, "skip") /\ ~NewAt(k, "cancel"))
              /\ (~NewAt(k, "skip") /\ ~NewAt(k, "cancel") /\ ~ReadErrorAt(k)) =>
                     LoadStartedAt(k)]_vars

\* one job in which an existing output was asked about and overwritten, and
\* another file was loaded without a question
C23_Witness ==
    \E j, k \in 1..Len(current_files) :
        /\ Did(j, "ask") /\ Did(j, "load")
        /\ Did(k, "reach") /\ ~Did(k, "ask") /\ Did(k, "load")

\* the files of the job whose output has passed a verification poll
Verified(notes) == {k \in 1..total_files : \E e \in notes : e.pos = k /\ e.what = "ok"}

\* C24: the success count of the summary is the number of files of the job
\* whose output passed verification in this job, also with skipped files
\* and with files left unconverted by Cancel.
C24_SuccessCountIsVerified ==
    [][finished' > finished =>
           summary'.success_count = Cardinality(Verified(log'))]_vars

\* the engine has written the output of position k in this job
EngineWrote(k) == [pos |-> k, what |-> "written", own |-> TRUE] \in log

\* the engine has given up the print of position k and written nothing for it
EngineWroteNothing(k) ==
    /\ [pos |-> k, what |-> "lost", own |-> TRUE] \in log
    /\ ~EngineWrote(k)
    /\ [pos |-> k, what |-> "written_empty", own |-> TRUE] \notin log

\* C25: a file whose print produced no output is never accepted as
\* converted, also when a nonzero output of the same name existed at the
\* output path before the job.
C25_LostPrintIsFailure ==
    [][\A k \in 1..Len(current_files) :
           EngineWroteNothing(k) => ~NewAt(k, "ok")]_vars

\* C26: the document printed to the output path of file k is the HTML
\* rendered from file k: the content of the web view at the call of
\* printToPdf is that of the file at the cursor.
C26_PrintsContentOfCursorFile ==
    [][\A pr \in Issued :
           /\ current_conversion_index + 1 \in 1..Len(current_files)
           /\ pr.html = current_files[current_conversion_index + 1]]_vars

\* a step of the engine or of a timer, not a click of the user
EngineStep == clicks' = clicks

\* the error entries a step appends
NewErrors == (Len(conversion_errors) + 1)..Len(conversion_errors')

\* the file an error entry names is the one the failing step was started
\* for: the document of the job's load that reported, the output path the
\* poll was armed with, the output path the print was prepared for
NamesFileOfStep(e) ==
    /\ (e.msg = "HTML load failed" /\ loads # <<>> /\ Head(loads).job = jobs_started) =>
           e.file_name = Stem(Head(loads).html)
    /\ e.msg \in {"PDF file is empty (0 bytes)", "PDF file was not generated"} =>
           \E t \in 1..Len(timers) :
               /\ timers[t].fn = "check_pdf_generation_final"
               /\ Due(t)
               /\ timers[t].job = jobs_started
               /\ timers[t].path = output_path_of(St, e.file_name)
    /\ e.msg = "PDF generation error" =>
           current_output_path = output_path_of(St, e.file_name)

\* C27: whenever a pipeline step reads current_files[current_conversion_index]
\* the cursor is a valid index of the document list (no step ends in an
\* IndexError) and the file read is the one the step was started for, also
\* when files are removed or cleared while the job runs.
C27_CursorFileIsStepFile ==
    [][EngineStep =>
           /\ crashed' = crashed
           /\ \A i \in NewErrors : NamesFileOfStep(conversion_errors'[i])]_vars

\* the loadFinished of a load that a preview or list action started
LaterPreviewSignal ==
    /\ loads # <<>>
    /\ Head(loads).job = 0
    /\ LoadFinished

\* what a run of on_html_loaded changes
HandlerEffects == <<current_conversion_index, conversion_errors, error_at, timers,
                    printing, finished, summary, progress_bar>>

\* C28: once the job is Done no on_html_loaded remains connected to
\* loadFinished, and the loadFinished of a later preview load leaves cursor,
\* error list, timers and prints alone, whatever the outcome of the last file.
C28_QuiescentAfterDone ==
    /\ [](Done => receivers = 0)
    /\ [][(Done /\ LaterPreviewSignal) => UNCHANGED HandlerEffects]_vars

(***************************************************************************)
(* The document list and its selection: the window is new, or a list of    *)
(* documents has been added and the first one is shown; the user adds,     *)
(* removes, clears, selects and pages, and the previews load.              *)
(***************************************************************************)
InitSelect ==
    \/ InitList
    \/ /\ InitJob
       /\ confirm_overwrite = TRUE
       /\ fs = [st \in Stems |-> NoFile]

NextSelect ==
    \/ AddFiles
    \/ RemoveSingleFile
    \/ ClearFiles
    \/ SelectFileItem
    \/ PrevPage
    \/ NextPage
    \/ LoadFinished

SpecSelect == InitSelect /\ [][NextSelect]_vars

\* the active file
Active == current_files[current_file_index + 1]

\* exactly the item at current_file_index is marked selected, and it is the
\* item of the active file
OneSelected ==
    /\ Len(file_items) = Len(current_files)
    /\ \A i \in 1..Len(file_items) :
          /\ file_items[i].selected <=> (i = current_file_index + 1)
          /\ file_items[i].file_path = current_files[i]

\* a step that removes a file standing before the active one
RemovesBeforeActive ==
    \E k \in 1..current_file_index : current_files' = RemoveAt(current_files, k)

\* C29: with a non-empty document list current_file_index is an index of it
\* and exactly the item at that index is selected; with an empty list the
\* index is 0 and no item is selected; removing a file that precedes the
\* active one keeps the same file active.
C29_SelectionFollowsList ==
    /\ [](/\ current_files # <<>> => current_file_index \in 0..(Len(current_files) - 1)
          /\ current_files = <<>> => current_file_index = 0
          /\ OneSelected)
    /\ [][RemovesBeforeActive => Active' = Active]_vars

\* the second of three files was made active and shown, then the first was
\* removed and the preview of the second could not be read again
C29_Witness ==
    /\ first_added = <<1, 2, 3>>
    /\ current_files = <<2, 3>>
    /\ current_file_index = 0
    /\ file_items[1].selected
    /\ prev_page_btn
    /\ clicks = 2

====
